---- MODULE Spec2Model ----
(***************************************************************************)
(* Model of pyrosimple's pyrotorque daemon (scripts/pyrotorque.py) and of  *)
(* the rTorrent XMLRPC proxy (util/xmlrpc.py).                             *)
(*                                                                         *)
(* Spec     : one invocation of RtorrentQueueManager.mainloop, with the    *)
(*            configuration file being edited, signals being delivered,    *)
(*            another daemon holding the pid lock, and the background      *)
(*            scheduler running jobs concurrently.                         *)
(* SpecRpc  : attribute chains and calls on one RTorrentProxy.             *)
(***************************************************************************)
EXTENDS Integers, Sequences, FiniteSets, TLC

VARIABLES
    mode,            \* self.options: "start", "status", "stop", "restart", "run_once"
    no_fork,         \* self.options.no_fork
    run_once,        \* self.options.run_once: the job named by --run-once, "none" without it
    pc,              \* position of the main thread in mainloop/run_forever/reload_jobs
    file,            \* the TORQUE section as it stands on disk
    torque,          \* config.settings.TORQUE as last loaded
    jobs,            \* self.jobs
    jobsOrder,       \* insertion order of self.jobs
    classes,         \* self.classes: job name -> handler instance (0 = no entry)
    classesOrder,    \* insertion order of self.classes
    sched,           \* self.sched state: "none", "running", "paused", "stopped"
    schedJobs,       \* jobs in the scheduler: job id -> handler instance whose run is registered
    running_config,  \* self.running_config
    insts,           \* every handler instance constructed so far
    inflight,        \* handler instances whose run() is executing on the scheduler's pool
    return_code,     \* self.return_code
    outcome,         \* how the process ended: "none", "exit", "returned", "fatal", "crash"
    exit_code,       \* the code given to sys.exit
    lock,            \* pid lock file: "absent", "live", "stale", "self"
    running,         \* local `running` of mainloop
    pid,             \* local `pid` of mainloop
    sigsent,         \* number of os.kill(pid, SIGTERM) calls
    polls,           \* number of is_locked() polls of the wait loop
    report,          \* the last lifecycle message logged
    edits,           \* number of edits made to the file
    signalled,       \* whether a signal was delivered to this process
    tick,            \* bookkeeping of the current reload_jobs call
    shutdowns,       \* number of sched.shutdown() calls
    onceRuns,        \* number of run() calls made by the --run-once branch
    rpcProxy,        \* RTorrentProxy: how RTorrentProxy(uri, transport) ended
    rpcChains,       \* RTorrentProxy: method objects built so far
    rpcSent,         \* RTorrentProxy: method names handed to transport.request, in order
    rpcCalls,        \* RTorrentProxy: number of terminal calls made
    rpcLast,         \* RTorrentProxy: the latest terminal call and how it ended
    psInput,         \* parse_schedule: the schedule string given, as its whitespace-separated params
    psOut            \* parse_schedule: what the call gave

daemonVars == <<mode, no_fork, run_once, pc, file, torque, jobs, jobsOrder, classes, classesOrder,
                sched, schedJobs, running_config, insts, inflight, return_code, outcome,
                exit_code, lock, running, pid, sigsent, polls, report, edits, signalled,
                tick, shutdowns, onceRuns>>
rpcVars == <<rpcProxy, rpcChains, rpcSent, rpcCalls, rpcLast>>
parseVars == <<psInput, psOut>>
vars == <<daemonVars, rpcVars, parseVars>>

---------------------------------------------------------------------------
(* Bounds *)

MaxEdits == 1
MaxInst == 5
MaxInflight == 2
MaxCleanups == 2
MaxChain == 2
MaxObjs == 3
MaxCalls == 2
MaxParams == 2

---------------------------------------------------------------------------
(* Job names and job definitions of the configuration *)

Names == {"A", "B", "C"}

\* order in which TORQUE.items() yields the job names
NameOrder == <<"A", "B", "C">>

\* handler classes: "Clean" has cleanup(), "Plain" has none, the constructor of
\* "BadInit" raises, cleanup() of "BadClean" raises
HandlerClasses == {"Clean", "Plain", "BadInit", "BadClean"}

\* unload_jobs that finds no handler to have a cleanup method
HasCleanupNever(cls) == FALSE

\* hasattr(cls, "cleanup") and callable(cls.cleanup)
HasCleanup(cls) == cls # "Plain"

Jitter == <<"j", "i", "t", "t", "e", "r">>

\* "minute=5 jitter=3"
SchedOk == << <<"m", "=", "5">>, Jitter \o <<"=", "3">> >>
\* "minute"
SchedBad == << <<"m">> >>

Absent == [present |-> FALSE, handler |-> "none", hasSchedule |-> FALSE,
           schedule |-> <<>>, active |-> TRUE]

Def(h, hs, s, a) == [present |-> TRUE, handler |-> h, hasSchedule |-> hs,
                     schedule |-> s, active |-> a]

Good == Def("Clean", TRUE, SchedOk, TRUE)
Plain == Def("Plain", TRUE, SchedOk, TRUE)
Inactive == Def("Clean", TRUE, SchedOk, FALSE)
NoSchedule == Def("Clean", FALSE, <<>>, TRUE)
NoHandler == Def("none", TRUE, SchedOk, TRUE)
BadSchedule == Def("Clean", TRUE, SchedBad, TRUE)
BadInit == Def("BadInit", TRUE, SchedOk, TRUE)
BadClean == Def("BadClean", TRUE, SchedOk, TRUE)

---------------------------------------------------------------------------
(* parse_schedule *)

Digits == {"0", "1", "2", "3", "4", "5", "6", "7", "8", "9"}

DigitVal(c) ==
    CASE c = "0" -> 0 [] c = "1" -> 1 [] c = "2" -> 2 [] c = "3" -> 3 [] c = "4" -> 4
      [] c = "5" -> 5 [] c = "6" -> 6 [] c = "7" -> 7 [] c = "8" -> 8 [] OTHER -> 9

\* val without a leading sign
Unsigned(val) == IF Len(val) > 0 /\ val[1] \in {"+", "-"} THEN SubSeq(val, 2, Len(val)) ELSE val

\* int(val) succeeds: decimal digits after an optional sign
IsInt(val) == Len(Unsigned(val)) > 0 /\ \A i \in 1..Len(Unsigned(val)) : Unsigned(val)[i] \in Digits

RECURSIVE DigitsOf(_)
DigitsOf(val) ==
    IF Len(val) = 0 THEN 0
    ELSE 10 * DigitsOf(SubSeq(val, 1, Len(val) - 1)) + DigitVal(val[Len(val)])

\* int(val)
IntOf(val) ==
    IF Len(val) > 0 /\ val[1] = "-" THEN 0 - DigitsOf(Unsigned(val)) ELSE DigitsOf(Unsigned(val))

\* position of the first "=" of a param, 0 if there is none
EqPos(param) ==
    IF \E i \in 1..Len(param) : param[i] = "="
    THEN CHOOSE i \in 1..Len(param) :
            param[i] = "=" /\ \A j \in 1..(i - 1) : param[j] # "="
    ELSE 0

\* a loop body that leaves the jitter value a string and never rejects it
ParseParamJitterAsString(param) ==
    LET e == EqPos(param)
    IN  IF e = 0 THEN [ok |-> FALSE, key |-> <<>>, val |-> [isInt |-> FALSE, str |-> <<>>, num |-> 0]]
        ELSE [ok |-> TRUE, key |-> SubSeq(param, 1, e - 1),
              val |-> [isInt |-> FALSE, str |-> SubSeq(param, e + 1, Len(param)), num |-> 0]]

\* the body of the loop of parse_schedule for one param
ParseParam(param) ==
    LET e == EqPos(param)
        key == SubSeq(param, 1, e - 1)
        val == SubSeq(param, e + 1, Len(param))
    IN  IF e = 0 THEN [ok |-> FALSE, key |-> <<>>, val |-> [isInt |-> FALSE, str |-> <<>>, num |-> 0]]
        ELSE IF key = Jitter
        THEN IF IsInt(val)
             THEN [ok |-> TRUE, key |-> key, val |-> [isInt |-> TRUE, str |-> <<>>, num |-> IntOf(val)]]
             ELSE [ok |-> FALSE, key |-> key, val |-> [isInt |-> FALSE, str |-> <<>>, num |-> 0]]
        ELSE [ok |-> TRUE, key |-> key, val |-> [isInt |-> FALSE, str |-> val, num |-> 0]]

RECURSIVE ParseFrom(_, _, _)
ParseFrom(schedule, i, result) ==
    IF i > Len(schedule) THEN [ok |-> TRUE, bad |-> <<>>, result |-> result]
    ELSE LET p == ParseParam(schedule[i])
         IN  IF ~p.ok THEN [ok |-> FALSE, bad |-> schedule[i], result |-> <<>>]
             ELSE ParseFrom(schedule, i + 1, (p.key :> p.val) @@ result)

parse_schedule(schedule) == ParseFrom(schedule, 1, <<>>)

\* params of schedule strings: "minute=*/5", "jitter=30", "minute", "jitter=x", "jitter",
\* "hour=1=2", "jitter=-5", "minute=7"
Params ==
    { <<"m", "=", "*", "/", "5">>, Jitter \o <<"=", "3", "0">>, <<"m">>, Jitter \o <<"=", "x">>,
      Jitter, <<"h", "=", "1", "=", "2">>, Jitter \o <<"=", "-", "5">>, <<"m", "=", "7">> }

\* schedule.split() of the schedule strings tried
RECURSIVE SchedulesOf(_)
SchedulesOf(n) ==
    IF n = 0 THEN {<<>>}
    ELSE SchedulesOf(n - 1) \cup {Append(s, p) : s \in SchedulesOf(n - 1), p \in Params}
Schedules == SchedulesOf(MaxParams)

NoParse == [done |-> FALSE, ok |-> FALSE, bad |-> <<>>, result |-> <<>>]

IdleParse ==
    /\ psInput = <<>>
    /\ psOut = NoParse

---------------------------------------------------------------------------
(* self.jobs entries, handler instances *)

NoJob == [present |-> FALSE, handler |-> "none", active |-> TRUE, imported |-> "none",
          schedParsed |-> FALSE, raw |-> <<>>, schedule |-> <<>>]

\* a validate_config that takes every job as active
JobEntryAlwaysActive(params, parsed) ==
    [present |-> TRUE, handler |-> params.handler, active |-> TRUE,
     imported |-> params.handler,
     schedParsed |-> parsed.ok, raw |-> params.schedule, schedule |-> parsed.result]

\* self.jobs[name] after lines 100-105 for the definition `params`
JobEntry(params, parsed) ==
    [present |-> TRUE, handler |-> params.handler, active |-> params.active,
     imported |-> IF params.active THEN params.handler ELSE "none",
     schedParsed |-> parsed.ok, raw |-> params.schedule, schedule |-> parsed.result]

Append1(order, n) == IF \E i \in 1..Len(order) : order[i] = n THEN order ELSE Append(order, n)

NoErr == [kind |-> "none", name |-> "none", key |-> "none", param |-> <<>>]
MissingKey(n, k) == [kind |-> "ConfigurationError", name |-> n, key |-> k, param |-> <<>>]
BadParam(n, p) == [kind |-> "ConfigurationError", name |-> n, key |-> "schedule", param |-> p]
RuntimeErr(k, n) == [kind |-> k, name |-> n, key |-> "none", param |-> <<>>]

\* a validate_config that does not check the required keys
FirstMissingIgnored(params) == "none"

\* a validate_config that requires the handler key only
FirstMissingHandlerOnly(params) == IF params.handler = "none" THEN "handler" ELSE "none"

\* the first required key missing from a job definition, "none" if both are there
FirstMissing(params) ==
    IF params.handler = "none" THEN "handler"
    ELSE IF ~params.hasSchedule THEN "schedule"
    ELSE "none"

\* validate_config: the loop over config.settings.TORQUE.items(), from the i-th item on.
\* The autoreload entry is no Box and is skipped (line 93).
RECURSIVE ValidateFrom(_, _, _, _)
ValidateFrom(js, order, tq, i) ==
    IF i > Len(NameOrder) THEN [jobs |-> js, order |-> order, err |-> NoErr]
    ELSE LET n == NameOrder[i]
             params == tq.jobs[n]
         IN  IF ~params.present THEN ValidateFrom(js, order, tq, i + 1)
             ELSE IF FirstMissing(params) # "none"
             THEN [jobs |-> js, order |-> order, err |-> MissingKey(n, FirstMissing(params))]
             ELSE LET parsed == parse_schedule(params.schedule)
                      js2 == [js EXCEPT ![n] = JobEntry(params, parsed)]
                      order2 == Append1(order, n)
                  IN  IF ~parsed.ok
                      THEN [jobs |-> js2, order |-> order2, err |-> BadParam(n, parsed.bad)]
                      ELSE ValidateFrom(js2, order2, tq, i + 1)

validate_config(js, order, tq) == ValidateFrom(js, order, tq, 1)

NewInst(n, cls) == [name |-> n, cls |-> cls, cleanups |-> 0]

\* an add_jobs that registers the job before it constructs the handler
RECURSIVE AddJobsFromRegisterFirst(_, _, _, _)
AddJobsFromRegisterFirst(js, order, st, i) ==
    IF i > Len(order) THEN st
    ELSE LET n == order[i]
             params == js[n]
             id == Len(st.insts) + 1
         IN  IF ~params.active THEN AddJobsFromRegisterFirst(js, order, st, i + 1)
             ELSE IF ~params.schedParsed
             THEN [st EXCEPT !.err = RuntimeErr("TypeError", n)]
             ELSE IF st.schedJobs[n] # 0
             THEN [st EXCEPT !.err = RuntimeErr("ConflictingIdError", n)]
             ELSE IF params.imported = "BadInit"
             THEN [st EXCEPT !.schedJobs[n] = id, !.err = RuntimeErr("HandlerError", n)]
             ELSE AddJobsFromRegisterFirst(js, order,
                      [st EXCEPT !.insts = Append(@, NewInst(n, params.imported)),
                                 !.classes[n] = id,
                                 !.classesOrder = Append1(@, n),
                                 !.schedJobs[n] = id,
                                 !.added[n] = @ + 1], i + 1)

\* add_jobs: the loop over self.jobs.items(), from the i-th item on.
\* st = [classes, classesOrder, schedJobs, insts, added, err]
RECURSIVE AddJobsFrom(_, _, _, _)
AddJobsFrom(js, order, st, i) ==
    IF i > Len(order) THEN st
    ELSE LET n == order[i]
             params == js[n]
         IN  IF ~params.active THEN AddJobsFrom(js, order, st, i + 1)
             ELSE IF params.imported = "BadInit"
             THEN [st EXCEPT !.err = RuntimeErr("HandlerError", n)]
             ELSE LET id == Len(st.insts) + 1
                      st2 == [st EXCEPT !.insts = Append(@, NewInst(n, params.imported)),
                                        !.classes[n] = id,
                                        !.classesOrder = Append1(@, n)]
                  IN  IF ~params.schedParsed
                      THEN [st2 EXCEPT !.err = RuntimeErr("TypeError", n)]
                      ELSE IF st2.schedJobs[n] # 0
                      THEN [st2 EXCEPT !.err = RuntimeErr("ConflictingIdError", n)]
                      ELSE AddJobsFrom(js, order,
                                       [st2 EXCEPT !.schedJobs[n] = id,
                                                   !.added[n] = @ + 1], i + 1)

add_jobs(js, order, cls, clsOrder, sj, ins) ==
    AddJobsFrom(js, order,
                [classes |-> cls, classesOrder |-> clsOrder, schedJobs |-> sj, insts |-> ins,
                 added |-> [n \in Names |-> 0], err |-> NoErr], 1)

\* unload_jobs: the loop over self.classes.items(), from the i-th item on.
\* st = [insts, cleaned, err]
RECURSIVE UnloadFrom(_, _, _, _)
UnloadFrom(cls, clsOrder, st, i) ==
    IF i > Len(clsOrder) THEN st
    ELSE LET n == clsOrder[i]
             id == cls[n]
         IN  IF ~HasCleanup(st.insts[id].cls) THEN UnloadFrom(cls, clsOrder, st, i + 1)
             ELSE LET st2 == [st EXCEPT !.insts[id].cleanups = @ + 1,
                                        !.cleaned[n] = @ + 1]
                  IN  IF st.insts[id].cls = "BadClean"
                      THEN [st2 EXCEPT !.err = RuntimeErr("HandlerError", n)]
                      ELSE UnloadFrom(cls, clsOrder, st2, i + 1)

unload_jobs(cls, clsOrder, ins) ==
    UnloadFrom(cls, clsOrder, [insts |-> ins, cleaned |-> [n \in Names |-> 0], err |-> NoErr], 1)

---------------------------------------------------------------------------
(* Initial state: the options of the invocation, the configuration as loaded, *)
(* and the pid lock left by another daemon                                   *)

Modes == {"start", "status", "stop", "restart", "run_once"}

Config(a, b, c, auto) ==
    [autoreload |-> auto, jobs |-> [n \in Names |-> IF n = "A" THEN a ELSE IF n = "B" THEN b ELSE c]]

InitDefs == {Absent, Good, Plain, Inactive, NoSchedule, NoHandler, BadSchedule, BadInit, BadClean}

InitConfigs == {Config(a, Absent, c, auto) :
                    a \in InitDefs, c \in {Absent, Plain}, auto \in BOOLEAN}

EditDefs == {Absent, Good, Inactive, NoSchedule, BadSchedule, BadInit}

NoSignal == [kind |-> "none", coded |-> FALSE, code |-> 0, inLoop |-> FALSE]

NoTick == [active |-> FALSE, result |-> "none", pre |-> [n \in Names |-> 0],
           preClasses |-> [n \in Names |-> 0],
           preConfig |-> Config(Absent, Absent, Absent, FALSE),
           removed |-> {}, cleaned |-> [n \in Names |-> 0], added |-> [n \in Names |-> 0]]

InitDaemon ==
    /\ mode \in Modes
    /\ no_fork \in BOOLEAN
    /\ (mode # "start" => no_fork = FALSE)
    /\ run_once \in IF mode = "run_once" THEN Names ELSE {"none"}
    /\ file \in InitConfigs
    /\ (mode = "restart" => ~file.autoreload)
    /\ (no_fork => ~file.autoreload)
    /\ torque = file
    /\ lock \in {"absent", "live", "stale"}
    /\ (mode = "start" /\ file.autoreload => lock = "absent")
    /\ pc = "m_validate"
    /\ jobs = [n \in Names |-> NoJob]
    /\ jobsOrder = <<>>
    /\ classes = [n \in Names |-> 0]
    /\ classesOrder = <<>>
    /\ sched = "none"
    /\ schedJobs = [n \in Names |-> 0]
    /\ running_config = Config(Absent, Absent, Absent, FALSE)  \* not set before run_forever
    /\ insts = <<>>
    /\ inflight = {}
    /\ return_code = 0
    /\ outcome = "none"
    /\ exit_code = 0
    /\ running = FALSE
    /\ pid = 0
    /\ sigsent = 0
    /\ polls = 0
    /\ report = <<"none">>
    /\ edits = 0
    /\ signalled = NoSignal
    /\ tick = NoTick
    /\ shutdowns = 0
    /\ onceRuns = 0

\* number of polls of the wait loop of stop/restart (range(100))
WaitPolls == 100

\* sysexits codes of pyrosimple.error
EX_OK == 0
EX_UNAVAILABLE == 69

\* what a call leaves behind: a returned value or a raised exception
Returns(scalar, items) ==
    [kind |-> "returned", exc |-> "none", code |-> 0, msg |-> "", cause |-> "none",
     scalar |-> scalar, items |-> items]
Raises(exc, code, msg, cause) ==
    [kind |-> "raised", exc |-> exc, code |-> code, msg |-> msg, cause |-> cause,
     scalar |-> FALSE, items |-> <<>>]

\* behaviours of transport.request: a decoded response of N values, a fault signalled by
\* the remote side (xmlrpc.client.Fault), or a connection-level error
Values(items) == [kind |-> "values", items |-> items, code |-> 0, msg |-> "", exc |-> "none"]
Fault(code, msg) == [kind |-> "fault", items |-> <<>>, code |-> code, msg |-> msg, exc |-> "Fault"]
ConnError(exc) == [kind |-> "error", items |-> <<>>, code |-> 0, msg |-> "", exc |-> exc]
NotFoundMsg == "Could not find info-hash."
OtherMsg == "Unsupported target type found."
Transports ==
    {Values(<<>>), Values(<<7>>), Values(<<7, 8>>), Fault(1, NotFoundMsg), Fault(2, OtherMsg),
     ConnError("ConnectionRefusedError")}

\* positional arguments of a call
ArgLists == {<<"HASH">>, <<"HASH", "x">>}

NoCall ==
    [call |-> 0, segs |-> <<>>, kw |-> FALSE, args |-> <<>>, sent |-> FALSE, params |-> <<>>,
     transport |-> Values(<<>>), outcome |-> Returns(FALSE, <<>>)]

\* schemes of the URIs handed to RTorrentProxy
Schemes == {"scgi", "ftp", "file"}

\* no proxy has been constructed
NoProxy == [state |-> "none", scheme |-> "none", exc |-> "none", named |-> "none", transport |-> "none"]

IdleRpc ==
    /\ rpcProxy = NoProxy
    /\ rpcChains = {}
    /\ rpcSent = <<>>
    /\ rpcCalls = 0
    /\ rpcLast = NoCall

Init == InitDaemon /\ IdleRpc /\ IdleParse

---------------------------------------------------------------------------
(* mainloop: validation and process control (lines 172-226) *)

lifecycleVars == <<running, pid, sigsent, polls, report>>
registryVars == <<jobs, jobsOrder, classes, classesOrder, schedJobs, insts>>
optionVars == <<mode, no_fork, run_once>>
endVars == <<return_code, outcome, exit_code>>

\* sys.exit(code)
SysExit(code) ==
    /\ outcome' = "exit"
    /\ exit_code' = code
    /\ pc' = "done"
    /\ UNCHANGED return_code

\* an exception nobody catches leaves mainloop
Crash ==
    /\ outcome' = "crash"
    /\ pc' = "done"
    /\ UNCHANGED <<return_code, exit_code>>

\* lines 174-177: validate_config(), a ConfigurationError is fatal
\* self.fatal(exc) of the script base class: the error is logged and the process ends
fatal(err) ==
    /\ outcome' = "fatal"
    /\ pc' = "done"
    /\ report' = <<"fatal", err.name, err.key>>
    /\ UNCHANGED <<return_code, exit_code>>

MainValidate ==
    /\ pc = "m_validate"
    /\ LET r == validate_config(jobs, jobsOrder, torque)
       IN  /\ jobs' = r.jobs
           /\ jobsOrder' = r.order
           /\ IF r.err.kind = "ConfigurationError"
              THEN fatal(r.err)
              ELSE /\ pc' = "m_control"
                   /\ UNCHANGED <<endVars, report>>
    /\ UNCHANGED <<rpcVars, parseVars, optionVars, file, torque, classes, classesOrder, sched,
                   schedJobs,
                   running_config, insts, inflight, lock, running, pid, sigsent, polls,
                   edits, signalled, tick, shutdowns, onceRuns>>

\* pid_file.is_locked(): the lock file exists
is_locked == lock # "absent"

\* lines 186-190
MainControl ==
    /\ pc = "m_control"
    /\ IF mode \in {"status", "stop", "restart"}
       THEN /\ running' = is_locked
            /\ pid' = IF is_locked THEN 1 ELSE 0
            /\ pc' = IF mode = "status" THEN "m_status" ELSE "m_stop"
       ELSE /\ pc' = "m_run_once"
            /\ UNCHANGED <<running, pid>>
    /\ UNCHANGED <<rpcVars, parseVars, optionVars, file, torque, registryVars, sched,
                   running_config, inflight,
                   endVars, lock, sigsent, polls, report, edits, signalled, tick, shutdowns,
                   onceRuns>>

\* lines 192-198
MainStatus ==
    /\ pc = "m_status"
    /\ IF running
       THEN report' = <<"running">> /\ SysExit(0)
       ELSE report' = <<"no process found">> /\ SysExit(1)
    /\ UNCHANGED <<rpcVars, parseVars, optionVars, file, torque, registryVars, sched,
                   running_config, inflight,
                   lock, running, pid, sigsent, polls, edits, signalled, tick, shutdowns,
                   onceRuns>>

\* lines 200-203 and 213-218: os.kill(pid, SIGTERM) when running
MainStop ==
    /\ pc = "m_stop"
    /\ IF running
       THEN IF lock = "live"
            THEN /\ sigsent' = sigsent + 1
                 /\ pc' = "m_wait"
                 /\ UNCHANGED <<report, endVars>>
            ELSE \* no such process: os.kill raises ProcessLookupError
                 /\ Crash
                 /\ UNCHANGED <<sigsent, report>>
       ELSE /\ report' = <<"no pid file">>
            /\ pc' = "m_stop_end"
            /\ UNCHANGED <<sigsent, endVars>>
    /\ UNCHANGED <<rpcVars, parseVars, optionVars, file, torque, registryVars, sched,
                   running_config, inflight,
                   lock, running, pid, polls, edits, signalled, tick, shutdowns, onceRuns>>

\* lines 206-212: one turn of the wait loop, or its end
MainWait ==
    /\ pc = "m_wait"
    /\ IF polls < WaitPolls
       THEN /\ polls' = polls + 1
            /\ IF ~is_locked
               THEN /\ running' = FALSE
                    /\ report' = <<"stopped">>
                    /\ pc' = "m_stop_end"
               ELSE UNCHANGED <<running, report, pc>>
       ELSE /\ report' = <<"stopped">>
            /\ pc' = "m_stop_end"
            /\ UNCHANGED <<running, polls>>
    /\ UNCHANGED <<rpcVars, parseVars, optionVars, file, torque, registryVars, sched,
                   running_config, inflight,
                   endVars, lock, pid, sigsent, edits, signalled, tick, shutdowns, onceRuns>>

\* lines 224-226
MainStopEnd ==
    /\ pc = "m_stop_end"
    /\ IF mode = "stop"
       THEN /\ return_code' = IF running THEN EX_OK ELSE EX_UNAVAILABLE
            /\ outcome' = "returned"
            /\ pc' = "done"
            /\ UNCHANGED exit_code
       ELSE /\ pc' = "m_run_once"
            /\ UNCHANGED endVars
    /\ UNCHANGED <<rpcVars, parseVars, optionVars, file, torque, registryVars, sched,
                   running_config, inflight,
                   lock, lifecycleVars, edits, signalled, tick, shutdowns, onceRuns>>

\* the daemon holding the lock ends after SIGTERM and its lock file goes away
OtherTerminates ==
    /\ lock = "live"
    /\ sigsent > 0
    /\ lock' = "absent"
    /\ UNCHANGED <<rpcVars, parseVars, optionVars, pc, file, torque, registryVars, sched,
                   running_config, inflight,
                   endVars, lifecycleVars, edits, signalled, tick, shutdowns, onceRuns>>

---------------------------------------------------------------------------
(* mainloop: run-once and daemon start (lines 228-270) *)

\* lines 229-235: the job named by --run-once is run in the foreground
MainRunOnce ==
    /\ pc = "m_run_once"
    /\ IF mode = "run_once"
       THEN LET n == run_once IN
              IF ~jobs[n].present \/ jobs[n].imported \in {"none", "BadInit"}
              THEN \* KeyError, None is not callable, or the constructor raises
                   /\ Crash
                   /\ UNCHANGED <<insts, onceRuns>>
              ELSE /\ Len(insts) < MaxInst
                   /\ insts' = Append(insts, NewInst(n, jobs[n].imported))
                   /\ onceRuns' = onceRuns + 1
                   /\ SysExit(0)
       ELSE /\ pc' = "m_daemonize"
            /\ UNCHANGED <<insts, onceRuns, endVars>>
    /\ UNCHANGED <<rpcVars, parseVars, optionVars, file, torque, jobs, jobsOrder, classes,
                   classesOrder, schedJobs,
                   sched, running_config, inflight, lock, lifecycleVars, edits, signalled,
                   tick, shutdowns>>

\* a start that goes on although the pid lock is held
MainDaemonizeIgnoringLock ==
    /\ pc = "m_daemonize"
    /\ lock' = IF no_fork \/ is_locked THEN lock ELSE "self"
    /\ sched' = "running"
    /\ pc' = "m_add_jobs"
    /\ UNCHANGED <<rpcVars, parseVars, optionVars, file, torque, registryVars, running_config,
                   inflight, endVars, lifecycleVars, edits, signalled, tick, shutdowns, onceRuns>>

\* lines 237-265: entering the DaemonContext takes the pid lock unless --no-fork,
\* then the scheduler is created and started
MainDaemonize ==
    /\ pc = "m_daemonize"
    /\ IF ~no_fork /\ is_locked
       THEN \* the lock file exists: acquire() raises AlreadyLocked
            /\ Crash
            /\ UNCHANGED <<lock, sched>>
       ELSE /\ lock' = IF no_fork THEN lock ELSE "self"
            /\ sched' = "running"
            /\ pc' = "m_add_jobs"
            /\ UNCHANGED endVars
    /\ UNCHANGED <<rpcVars, parseVars, optionVars, file, torque, registryVars, running_config,
                   inflight,
                   lifecycleVars, edits, signalled, tick, shutdowns, onceRuns>>

\* the number of handlers add_jobs would construct
ActiveCount == Cardinality({n \in Names : jobs[n].present /\ jobs[n].active})

\* lines 266-267: add_jobs() inside the try of the scheduler block
MainAddJobs ==
    /\ pc = "m_add_jobs"
    /\ Len(insts) + ActiveCount <= MaxInst
    /\ LET r == add_jobs(jobs, jobsOrder, classes, classesOrder, schedJobs, insts)
       IN  /\ classes' = r.classes
           /\ classesOrder' = r.classesOrder
           /\ schedJobs' = r.schedJobs
           /\ insts' = r.insts
           /\ pc' = IF r.err.kind = "none" THEN "run_forever" ELSE "finally_exc"
    /\ UNCHANGED <<rpcVars, parseVars, optionVars, file, torque, jobs, jobsOrder, sched,
                   running_config, inflight,
                   endVars, lock, lifecycleVars, edits, signalled, tick, shutdowns, onceRuns>>

\* line 156
RunForever ==
    /\ pc = "run_forever"
    /\ running_config' = torque
    /\ pc' = "sleep"
    /\ UNCHANGED <<rpcVars, parseVars, optionVars, file, torque, registryVars, sched, inflight,
                   endVars, lock,
                   lifecycleVars, edits, signalled, tick, shutdowns, onceRuns>>

\* sched.shutdown(): it waits for the runs in flight and raises
\* SchedulerNotRunningError on a scheduler that is not running
ShutdownRaises == sched = "stopped"

\* lines 269-270 and the end of the with block: sched.shutdown(), the lock is released
Finally ==
    /\ pc \in {"finally", "finally_exc"}
    /\ shutdowns' = shutdowns + 1
    /\ IF ShutdownRaises
       THEN /\ outcome' = "crash"
            /\ UNCHANGED sched
       ELSE /\ inflight = {}
            /\ sched' = "stopped"
            /\ outcome' = IF pc = "finally_exc" THEN "crash" ELSE "returned"
    /\ lock' = IF lock = "self" THEN "absent" ELSE lock
    /\ pc' = "done"
    /\ UNCHANGED <<rpcVars, parseVars, optionVars, file, torque, registryVars, running_config,
                   inflight,
                   return_code, exit_code, lifecycleVars, edits, signalled, tick, onceRuns>>

---------------------------------------------------------------------------
(* run_forever and reload_jobs (lines 136-170) *)

ReloadPcs == {"r_configure", "r_validate", "r_pause", "r_remove", "r_unload", "r_resume",
              "r_add", "r_snapshot", "r_except", "r_else"}

\* lines 159-161: the poll interval has passed, reload_jobs is called when autoreload is on
Sleep ==
    /\ pc = "sleep"
    /\ torque.autoreload
    /\ pc' = "r_configure"
    /\ tick' = [NoTick EXCEPT !.active = TRUE, !.pre = schedJobs, !.preClasses = classes,
                              !.preConfig = running_config]
    /\ UNCHANGED <<rpcVars, parseVars, optionVars, file, torque, registryVars, sched,
                   running_config, inflight,
                   endVars, lock, lifecycleVars, edits, signalled, shutdowns, onceRuns>>

\* a reload_jobs that does not compare and always reloads
ConfigChangedAlways(snapshot, loaded) == TRUE

\* line 140: self.running_config != dict(config.settings.TORQUE)
ConfigChanged(snapshot, loaded) == snapshot # loaded

\* lines 139-140: the configuration is read again and compared with the snapshot
ReloadConfigure ==
    /\ pc = "r_configure"
    /\ torque' = file
    /\ pc' = IF ConfigChanged(running_config, file) THEN "r_validate" ELSE "r_else"
    /\ tick' = [tick EXCEPT !.result = IF ConfigChanged(running_config, file)
                                       THEN "changed" ELSE "noop"]
    /\ UNCHANGED <<rpcVars, parseVars, optionVars, file, registryVars, sched, running_config,
                   inflight, endVars,
                   lock, lifecycleVars, edits, signalled, shutdowns, onceRuns>>

\* line 142
ReloadValidate ==
    /\ pc = "r_validate"
    /\ LET r == validate_config(jobs, jobsOrder, torque)
       IN  /\ jobs' = r.jobs
           /\ jobsOrder' = r.order
           /\ pc' = IF r.err.kind = "none" THEN "r_pause" ELSE "r_except"
    /\ UNCHANGED <<rpcVars, parseVars, optionVars, file, torque, classes, classesOrder,
                   schedJobs, insts, sched,
                   running_config, inflight, endVars, lock, lifecycleVars, edits, signalled,
                   tick, shutdowns, onceRuns>>

\* a reload_jobs that goes on without pausing the scheduler
ReloadPauseSkipped ==
    /\ pc = "r_pause"
    /\ pc' = "r_remove"
    /\ UNCHANGED <<rpcVars, parseVars, optionVars, file, torque, registryVars, sched,
                   running_config,
                   inflight, endVars, lock, lifecycleVars, edits, signalled, tick, shutdowns,
                   onceRuns>>

\* line 143: sched.pause()
ReloadPause ==
    /\ pc = "r_pause"
    /\ sched' = "paused"
    /\ pc' = "r_remove"
    /\ UNCHANGED <<rpcVars, parseVars, optionVars, file, torque, registryVars, running_config,
                   inflight, endVars,
                   lock, lifecycleVars, edits, signalled, tick, shutdowns, onceRuns>>

\* line 144: sched.remove_all_jobs()
ReloadRemove ==
    /\ pc = "r_remove"
    /\ schedJobs' = [n \in Names |-> 0]
    /\ tick' = [tick EXCEPT !.removed = {n \in Names : schedJobs[n] # 0}]
    /\ pc' = "r_unload"
    /\ UNCHANGED <<rpcVars, parseVars, optionVars, file, torque, jobs, jobsOrder, classes,
                   classesOrder, insts,
                   sched, running_config, inflight, endVars, lock, lifecycleVars, edits,
                   signalled, shutdowns, onceRuns>>

\* no handler in self.classes has reached the bound on cleanup calls
CleanupsBelowBound == \A n \in Names : classes[n] # 0 => insts[classes[n]].cleanups < MaxCleanups

\* line 145: unload_jobs()
ReloadUnload ==
    /\ pc = "r_unload"
    /\ CleanupsBelowBound
    /\ LET r == unload_jobs(classes, classesOrder, insts)
       IN  /\ insts' = r.insts
           /\ tick' = [tick EXCEPT !.cleaned = r.cleaned]
           /\ pc' = IF r.err.kind = "none" THEN "r_resume" ELSE "r_except"
    /\ UNCHANGED <<rpcVars, parseVars, optionVars, file, torque, jobs, jobsOrder, classes,
                   classesOrder, schedJobs,
                   sched, running_config, inflight, endVars, lock, lifecycleVars, edits,
                   signalled, shutdowns, onceRuns>>

\* sched.resume(): a paused scheduler runs again, a running one is left as it is
Resumed(s) == IF s = "paused" THEN "running" ELSE s

\* line 146: sched.resume()
ReloadResume ==
    /\ pc = "r_resume"
    /\ sched' = Resumed(sched)
    /\ pc' = "r_add"
    /\ UNCHANGED <<rpcVars, parseVars, optionVars, file, torque, registryVars, running_config,
                   inflight, endVars,
                   lock, lifecycleVars, edits, signalled, tick, shutdowns, onceRuns>>

\* line 147: add_jobs()
ReloadAdd ==
    /\ pc = "r_add"
    /\ Len(insts) + ActiveCount <= MaxInst
    /\ LET r == add_jobs(jobs, jobsOrder, classes, classesOrder, schedJobs, insts)
       IN  /\ classes' = r.classes
           /\ classesOrder' = r.classesOrder
           /\ schedJobs' = r.schedJobs
           /\ insts' = r.insts
           /\ tick' = [tick EXCEPT !.added = r.added]
           /\ pc' = IF r.err.kind = "none" THEN "r_snapshot" ELSE "r_except"
    /\ UNCHANGED <<rpcVars, parseVars, optionVars, file, torque, jobs, jobsOrder, sched,
                   running_config, inflight,
                   endVars, lock, lifecycleVars, edits, signalled, shutdowns, onceRuns>>

\* line 148
ReloadSnapshot ==
    /\ pc = "r_snapshot"
    /\ running_config' = torque
    /\ tick' = [tick EXCEPT !.result = "applied"]
    /\ pc' = "r_else"
    /\ UNCHANGED <<rpcVars, parseVars, optionVars, file, torque, registryVars, sched, inflight,
                   endVars, lock,
                   lifecycleVars, edits, signalled, shutdowns, onceRuns>>

\* an except clause that takes the configuration that failed as the new snapshot
ReloadExceptTakingSnapshot ==
    /\ pc = "r_except"
    /\ running_config' = torque
    /\ tick' = [tick EXCEPT !.active = FALSE, !.result = "error"]
    /\ pc' = "sleep"
    /\ UNCHANGED <<rpcVars, parseVars, optionVars, file, torque, registryVars, sched, inflight,
                   endVars, lock, lifecycleVars, edits, signalled, shutdowns, onceRuns>>

\* lines 149-150: the exception is logged and reload_jobs returns
ReloadExcept ==
    /\ pc = "r_except"
    /\ tick' = [tick EXCEPT !.active = FALSE, !.result = "error"]
    /\ pc' = "sleep"
    /\ UNCHANGED <<rpcVars, parseVars, optionVars, file, torque, registryVars, sched,
                   running_config, inflight,
                   endVars, lock, lifecycleVars, edits, signalled, shutdowns, onceRuns>>

\* lines 151-152: no exception, sched.resume() and reload_jobs returns
ReloadElse ==
    /\ pc = "r_else"
    /\ sched' = Resumed(sched)
    /\ tick' = [tick EXCEPT !.active = FALSE]
    /\ pc' = "sleep"
    /\ UNCHANGED <<rpcVars, parseVars, optionVars, file, torque, registryVars, running_config,
                   inflight, endVars,
                   lock, lifecycleVars, edits, signalled, shutdowns, onceRuns>>

---------------------------------------------------------------------------
(* Termination requests (lines 162-170) *)

LoopPcs == {"sleep"} \cup ReloadPcs

\* the codes a SystemExit may carry: none (None), 0, or a failure code
TermCodes == {[coded |-> FALSE, code |-> 0], [coded |-> TRUE, code |-> 0],
              [coded |-> TRUE, code |-> 3]}

\* KeyboardInterrupt raised in the main thread
Interrupt ==
    /\ signalled.kind = "none"
    /\ pc \in LoopPcs \cup {"m_add_jobs", "run_forever"}
    /\ signalled' = [kind |-> "KeyboardInterrupt", coded |-> FALSE, code |-> 0,
                     inLoop |-> pc \in LoopPcs]
    /\ pc' = IF pc \in LoopPcs THEN "kbd_shutdown" ELSE "finally_exc"
    /\ UNCHANGED <<rpcVars, parseVars, optionVars, file, torque, registryVars, sched,
                   running_config, inflight,
                   endVars, lock, lifecycleVars, edits, tick, shutdowns, onceRuns>>

\* exc.code or 0
CodeOrZero(c) == IF c.coded /\ c.code # 0 THEN c.code ELSE 0

\* SystemExit raised in the main thread (the SIGTERM handler of the DaemonContext raises it);
\* inside the loop lines 167-170 handle it
Terminate ==
    /\ signalled.kind = "none"
    /\ pc \in LoopPcs \cup {"m_add_jobs", "run_forever"}
    /\ \E c \in TermCodes :
         /\ signalled' = [kind |-> "SystemExit", coded |-> c.coded, code |-> c.code,
                          inLoop |-> pc \in LoopPcs]
         /\ return_code' = IF pc \in LoopPcs THEN CodeOrZero(c) ELSE return_code
    /\ pc' = IF pc \in LoopPcs THEN "finally" ELSE "finally_exc"
    /\ UNCHANGED <<rpcVars, parseVars, optionVars, file, torque, registryVars, sched,
                   running_config, inflight,
                   outcome, exit_code, lock, lifecycleVars, edits, tick, shutdowns, onceRuns>>

\* line 164: sched.shutdown() in the KeyboardInterrupt handler
KbdShutdown ==
    /\ pc = "kbd_shutdown"
    /\ shutdowns' = shutdowns + 1
    /\ IF ShutdownRaises
       THEN /\ pc' = "finally_exc"
            /\ UNCHANGED sched
       ELSE /\ inflight = {}
            /\ sched' = "stopped"
            /\ pc' = "kbd_unload"
    /\ UNCHANGED <<rpcVars, parseVars, optionVars, file, torque, registryVars, running_config,
                   inflight, endVars,
                   lock, lifecycleVars, edits, signalled, tick, onceRuns>>

\* lines 165-166: unload_jobs(), break
KbdUnload ==
    /\ pc = "kbd_unload"
    /\ CleanupsBelowBound
    /\ LET r == unload_jobs(classes, classesOrder, insts)
       IN  /\ insts' = r.insts
           /\ pc' = IF r.err.kind = "none" THEN "finally" ELSE "finally_exc"
    /\ UNCHANGED <<rpcVars, parseVars, optionVars, file, torque, jobs, jobsOrder, classes,
                   classesOrder, schedJobs,
                   sched, running_config, inflight, endVars, lock, lifecycleVars, edits,
                   signalled, tick, shutdowns, onceRuns>>

---------------------------------------------------------------------------
(* The background scheduler and the configuration file *)

\* a scheduler that starts a due job whatever is in flight
JobFireUnlimited(n) ==
    /\ sched = "running"
    /\ schedJobs[n] # 0
    /\ [job |-> n, inst |-> schedJobs[n]] \notin inflight
    /\ Cardinality(inflight) < MaxInflight
    /\ inflight' = inflight \cup {[job |-> n, inst |-> schedJobs[n]]}
    /\ UNCHANGED <<rpcVars, parseVars, optionVars, pc, file, torque, registryVars, sched,
                   running_config, endVars,
                   lock, lifecycleVars, edits, signalled, tick, shutdowns, onceRuns>>

\* the scheduler's thread starts a due job: only a running scheduler does, and
\* not while a run of the same job id is in flight (max_instances = 1)
JobFire(n) ==
    /\ sched = "running"
    /\ schedJobs[n] # 0
    /\ \A r \in inflight : r.job # n
    /\ Cardinality(inflight) < MaxInflight
    /\ inflight' = inflight \cup {[job |-> n, inst |-> schedJobs[n]]}
    /\ UNCHANGED <<rpcVars, parseVars, optionVars, pc, file, torque, registryVars, sched,
                   running_config, endVars,
                   lock, lifecycleVars, edits, signalled, tick, shutdowns, onceRuns>>

\* a run() returns or raises inside the scheduler's pool
JobDone(r) ==
    /\ r \in inflight
    /\ inflight' = inflight \ {r}
    /\ UNCHANGED <<rpcVars, parseVars, optionVars, pc, file, torque, registryVars, sched,
                   running_config, endVars,
                   lock, lifecycleVars, edits, signalled, tick, shutdowns, onceRuns>>

\* somebody saves a new configuration file; it is read by the next configure() only
Save(c) ==
    /\ edits < MaxEdits
    /\ pc = "sleep"
    /\ torque.autoreload
    /\ file' = c
    /\ edits' = edits + 1
    /\ UNCHANGED <<rpcVars, parseVars, optionVars, pc, torque, registryVars, sched,
                   running_config, inflight,
                   endVars, lock, lifecycleVars, signalled, tick, shutdowns, onceRuns>>

Scheduler == \E n \in Names : JobFire(n)
Pool == \E r \in inflight : JobDone(r)
\* the new file changes one job, drops one job and adds another, or switches one job
\* off while another job's schedule is mistyped
Edit(n, d) ==
    /\ file.jobs[n] # d
    /\ Save([file EXCEPT !.jobs[n] = d])

Swap(n, m) ==
    /\ file.jobs[n].present
    /\ ~file.jobs[m].present
    /\ Save([file EXCEPT !.jobs[n] = Absent, !.jobs[m] = Good])

Break(n, m) ==
    /\ n # m
    /\ file.jobs[n].present
    /\ file.jobs[n].active
    /\ file.jobs[m].present
    /\ Save([file EXCEPT !.jobs[n] = Inactive, !.jobs[m] = BadSchedule])

\* the new file switches autoreload off and rewrites one job
SwitchOff(n, d) ==
    /\ file.autoreload
    /\ Save([file EXCEPT !.autoreload = FALSE, !.jobs[n] = d])

Editor ==
    \/ \E n \in Names, d \in EditDefs : Edit(n, d)
    \/ \E n \in Names, m \in Names : Swap(n, m)
    \/ \E n \in Names, m \in Names : Break(n, m)
    \/ \E n \in Names, d \in {Good, BadSchedule} : SwitchOff(n, d)

Next ==
    \/ MainValidate
    \/ MainControl
    \/ MainStatus
    \/ MainStop
    \/ MainWait
    \/ MainStopEnd
    \/ OtherTerminates
    \/ MainRunOnce
    \/ MainDaemonize
    \/ MainAddJobs
    \/ RunForever
    \/ Sleep
    \/ ReloadConfigure
    \/ ReloadValidate
    \/ ReloadPause
    \/ ReloadRemove
    \/ ReloadUnload
    \/ ReloadResume
    \/ ReloadAdd
    \/ ReloadSnapshot
    \/ ReloadExcept
    \/ ReloadElse
    \/ Interrupt
    \/ Terminate
    \/ KbdShutdown
    \/ KbdUnload
    \/ Finally
    \/ Scheduler
    \/ Pool
    \/ Editor

Spec == Init /\ [][Next]_vars

---------------------------------------------------------------------------
(* RTorrentProxy and its method objects (util/xmlrpc.py lines 63-68, 125-148) *)

Segments == {"d", "name"}

\* the method objects that exist: cls is the class of the object, name the name
\* it holds ("." joins the parts), segs the attribute accesses that led to it
ProxyMethod(seg) == [cls |-> "RTorrentMethod", name |-> <<seg>>, segs |-> <<seg>>]

\* xmlrpc.client._Method.__getattr__: _Method(send, "%s.%s" % (name, attr))
ChainMethod(m, seg) ==
    [cls |-> "_Method", name |-> m.name \o <<".", seg>>, segs |-> Append(m.segs, seg)]

\* the schemes __init__ lets through
SupportedSchemes == {"http", "https", "scgi", "scgi+ssh"}

\* RTorrentProxy(uri, transport): an unsupported scheme raises
\* OSError("unsupported XML-RPC protocol"), whose text holds no part of the uri;
\* otherwise the transport is the one passed in or the one scgi.transport_from_url
\* selects for the uri
ProxyInit(scheme, given) ==
    /\ rpcProxy.state = "none"
    /\ rpcProxy' = IF scheme \notin SupportedSchemes
                   THEN [state |-> "failed", scheme |-> scheme, exc |-> "OSError",
                         named |-> "none", transport |-> "none"]
                   ELSE [state |-> "built", scheme |-> scheme, exc |-> "none",
                         named |-> "none",
                         transport |-> IF given THEN "given" ELSE "selected"]
    /\ UNCHANGED <<rpcChains, rpcSent, rpcCalls, rpcLast, daemonVars, parseVars>>

\* RTorrentProxy.__getattr__: RTorrentMethod(self.__request, name)
ProxyGetattr(seg) ==
    /\ rpcProxy.state = "built"
    /\ Cardinality(rpcChains) < MaxObjs
    /\ rpcChains' = rpcChains \cup {ProxyMethod(seg)}
    /\ UNCHANGED <<rpcProxy, rpcSent, rpcCalls, rpcLast, daemonVars, parseVars>>

\* attribute access on a method object
MethodGetattr(m, seg) ==
    /\ Cardinality(rpcChains) < MaxObjs
    /\ Len(m.segs) < MaxChain
    /\ rpcChains' = rpcChains \cup {ChainMethod(m, seg)}
    /\ UNCHANGED <<rpcProxy, rpcSent, rpcCalls, rpcLast, daemonVars, parseVars>>

\* whether m(*args, **kwargs) is accepted: RTorrentMethod.__call__ takes and drops
\* keyword arguments, _Method.__call__(self, *args) raises TypeError on them
AcceptsCall(m, kw) == m.cls = "RTorrentMethod" \/ ~kw

\* a __request that returns the response as the transport gave it
RequestNoUnwrap(t) ==
    IF t.kind = "values" THEN Returns(FALSE, t.items)
    ELSE Raises(t.exc, t.code, t.msg, "none")

\* a __request that wraps what the transport raises into XmlRpcError
RequestWrapping(t) ==
    IF t.kind = "values"
    THEN Returns(Len(t.items) = 1, t.items)
    ELSE Raises("XmlRpcError", t.code, t.msg, t.exc)

\* RTorrentProxy.__request (lines 125-141): the transport's response is returned, a
\* single value unwrapped (scalar = the result is items[1]); there is no except clause,
\* so whatever transport.request raises leaves the call as it is
Request(t) ==
    IF t.kind = "values"
    THEN Returns(Len(t.items) = 1, t.items)
    ELSE Raises(t.exc, t.code, t.msg, "none")

\* a terminal call m(*args, **kwargs); kw says whether keyword arguments are given, t is
\* what the transport does with the request. __request hands one request with the
\* method's name and the positional arguments to the transport.
Call(m, kw, args, t) ==
    /\ rpcCalls < MaxCalls
    /\ rpcCalls' = rpcCalls + 1
    /\ rpcSent' = IF AcceptsCall(m, kw)
                  THEN Append(rpcSent, [name |-> m.name, segs |-> m.segs, call |-> rpcCalls + 1])
                  ELSE rpcSent
    /\ rpcLast' = [call |-> rpcCalls + 1, segs |-> m.segs, kw |-> kw, args |-> args,
                   sent |-> AcceptsCall(m, kw),
                   params |-> IF AcceptsCall(m, kw) THEN args ELSE <<>>,
                   transport |-> t,
                   outcome |-> IF AcceptsCall(m, kw) THEN Request(t)
                               ELSE Raises("TypeError", 0, "", "none")]
    /\ UNCHANGED <<rpcProxy, rpcChains, daemonVars, parseVars>>

IdleDaemon ==
    /\ InitDaemon
    /\ mode = "status"
    /\ file = Config(Good, Absent, Absent, FALSE)
    /\ lock = "absent"

InitRpc == IdleDaemon /\ IdleRpc /\ IdleParse

NextRpc ==
    \/ \E scheme \in Schemes, given \in BOOLEAN : ProxyInit(scheme, given)
    \/ \E seg \in Segments : ProxyGetattr(seg)
    \/ \E m \in rpcChains, seg \in Segments : MethodGetattr(m, seg)
    \/ \E m \in rpcChains, kw \in BOOLEAN, args \in ArgLists, t \in Transports : Call(m, kw, args, t)

SpecRpc == InitRpc /\ [][NextRpc]_vars

---------------------------------------------------------------------------
(* parse_schedule on its own (pyrotorque.py lines 70-86) *)

InitParse ==
    /\ IdleDaemon
    /\ IdleRpc
    /\ psInput \in Schedules
    /\ psOut = NoParse

\* self.parse_schedule(schedule)
ParseSchedule ==
    /\ ~psOut.done
    /\ LET r == parse_schedule(psInput)
       IN  psOut' = [done |-> TRUE, ok |-> r.ok, bad |-> r.bad, result |-> r.result]
    /\ UNCHANGED <<psInput, daemonVars, rpcVars>>

NextParse == ParseSchedule

SpecParse == InitParse /\ [][NextParse]_vars

---------------------------------------------------------------------------
(* Properties of the daemon *)

\* reload_jobs has returned to the idle loop
Returned == pc = "sleep" /\ ~tick.active /\ tick.result # "none"

\* the tick saw a configuration without job a, which was registered, and with the new job b
RemovedAndAdded(a, b) ==
    /\ tick.pre[a] # 0
    /\ tick.preConfig.jobs[a].present
    /\ ~torque.jobs[a].present
    /\ insts[tick.preClasses[a]].cls # "Plain"
    /\ tick.pre[b] = 0
    /\ ~tick.preConfig.jobs[b].present
    /\ torque.jobs[b].present
    /\ torque.jobs[b].active
    /\ \A o \in Names \ {a, b} : torque.jobs[o] = tick.preConfig.jobs[o]

C2_ResumedOnReturn == Returned => sched = "running"

\* a termination request was handled by the loop of run_forever and the process has ended
ShutDown == pc = "done" /\ signalled.kind # "none" /\ signalled.inLoop

\* C3: after a shutdown by KeyboardInterrupt or SystemExit the scheduler is stopped, every
\* instantiated handler that has a cleanup has had it called exactly once, and mainloop
\* returns with the code the request carried, or 0.
C3_ShutdownCleansUp ==
    ShutDown
    => /\ sched = "stopped"
       /\ \A n \in Names :
             (classes[n] # 0 /\ HasCleanup(insts[classes[n]].cls))
             => insts[classes[n]].cleanups = 1
       /\ outcome = "returned"
       /\ return_code = CodeOrZero(signalled)

\* a termination request cut a reload_jobs call short
CutShort == signalled.kind # "none" /\ tick.active

\* no job of self.jobs has a handler whose constructor or cleanup raises
NoRaisingHandler == \A n \in Names : jobs[n].handler \notin {"BadInit", "BadClean"}

\* C4: no handler instance (as long as no handler raises and no termination request cuts
\* a reload short) has its cleanup called more than once, and a handler whose run
\* is registered with a scheduler that is not shut down has not been cleaned up.
C4_CleanupOncePerHandler ==
    /\ \A i \in 1..Len(insts) :
          (insts[i].cls # "BadClean" /\ NoRaisingHandler /\ ~CutShort)
          => insts[i].cleanups <= 1
    /\ \A n \in Names :
          (schedJobs[n] # 0 /\ sched # "stopped") => insts[schedJobs[n]].cleanups = 0

\* a job definition validate_config rejects
Invalid(d) ==
    /\ d.present
    /\ (d.handler = "none" \/ ~d.hasSchedule \/ ~parse_schedule(d.schedule).ok)

\* a job definition that validates and whose handler does not raise
Sound(d) == d.present => (~Invalid(d) /\ d.handler \notin {"BadInit", "BadClean"})

UnchangedReload ==
    \/ pc = "r_configure" /\ file = running_config
    \/ pc = "r_else" /\ tick.result = "noop"

\* C6: a reload that finds the re-read configuration equal to the running snapshot does not
\* pause the scheduler, removes and registers no job, constructs and cleans up no handler,
\* and leaves self.jobs, self.classes and the snapshot as they were.
C6_UnchangedReloadIsNoop ==
    [][UnchangedReload
       => /\ UNCHANGED <<jobs, jobsOrder, classes, classesOrder, schedJobs, insts, running_config>>
          /\ (sched' = "paused" => sched = "paused")
          /\ pc' \notin {"r_validate", "r_pause", "r_remove", "r_unload", "r_resume", "r_add",
                         "r_snapshot", "r_except"}]_vars

C6_Witness ==
    /\ Returned
    /\ tick.result = "noop"
    /\ torque = running_config
    /\ \E n \in Names : schedJobs[n] # 0

\* C7: during a reload every change of the scheduler's jobs, of self.jobs and of
\* self.classes is made while the scheduler is paused.
C7_MutationWhilePaused ==
    [][(pc \in ReloadPcs /\ (schedJobs' # schedJobs \/ jobs' # jobs \/ classes' # classes))
       => (sched = "paused" /\ sched' = "paused")]_vars

\* some handler's cleanup is called in this step
CleanupStep == \E i \in 1..Len(insts) : insts'[i].cleanups # insts[i].cleanups

\* a job is removed from the scheduler, or a handler cleaned up, only between pause and resume
RemovalPaused ==
    ((\E n \in Names : schedJobs[n] # 0 /\ schedJobs'[n] # schedJobs[n]) \/ CleanupStep)
        => (sched = "paused" /\ sched' = "paused")

\* a job is registered, or self.classes changed, only by add_jobs with the scheduler running
RegistrationAfterResume ==
    ((\E n \in Names : schedJobs'[n] \notin {0, schedJobs[n]}) \/ classes' # classes)
        => (pc = "r_add" /\ sched = "running")

\* self.jobs is changed only by validate_config
JobsByValidate == jobs' # jobs => pc = "r_validate"

\* C7 amended: during a reload every removal of a job from the scheduler and every handler
\* cleanup is made while the scheduler is paused; self.jobs is changed by validate_config
\* only, before the pause, and jobs are registered and self.classes is changed by
\* add_jobs only, after the resume of line 146, with the scheduler running.
C7_RemovalWhilePaused ==
    [][(pc \in ReloadPcs) => (RemovalPaused /\ RegistrationAfterResume /\ JobsByValidate)]_vars

C7_Witness ==
    /\ Returned
    /\ tick.result = "applied"
    /\ tick.removed # {}
    /\ \E n \in Names : tick.cleaned[n] = 1
    /\ \E n \in Names : tick.added[n] = 1 /\ schedJobs[n] # 0

\* C8: when stop has signalled a live daemon and its wait is over, one signal was sent, at
\* most WaitPolls polls were made, nothing was raised, and the message says stopped if the
\* lock was seen released and still running if the wait expired.
C8_StopReports ==
    (mode = "stop" /\ pc = "m_stop_end" /\ sigsent > 0)
    => /\ sigsent = 1
       /\ polls <= WaitPolls
       /\ outcome # "crash"
       /\ (~running => report = <<"stopped">>)
       /\ (running => report = <<"still running">>)

\* C9: status ends with "running" and exit code 0 when the lock file records a live
\* process, with "not running" and exit code 1 when the lock file is absent or stale, and
\* in no case sends a signal or starts the scheduler.
C9_StatusReports ==
    (mode = "status" /\ pc = "done" /\ outcome = "exit")
    => /\ (lock = "live" => report = <<"running">> /\ exit_code = 0)
       /\ (lock \in {"absent", "stale"} => report = <<"no process found">> /\ exit_code = 1)
       /\ sigsent = 0
       /\ sched = "none"

---------------------------------------------------------------------------
(* Properties of the proxy *)

RECURSIVE Joined(_)
\* ".".join(segs)
Joined(segs) ==
    IF Len(segs) = 1 THEN <<segs[1]>>
    ELSE Joined(SubSeq(segs, 1, Len(segs) - 1)) \o <<".", segs[Len(segs)]>>

\* C10: building chains sends nothing, every terminal call hands exactly one request to
\* the transport, and the name of each request is the accessed segments joined by ".".
C10_OneRequestPerCall ==
    /\ Len(rpcSent) = rpcCalls
    /\ \A i \in 1..Len(rpcSent) : rpcSent[i].name = Joined(rpcSent[i].segs)

\* the key the definition d lacks, in the order validate_config asks for them
LacksKey(d) ==
    IF ~d.present THEN "none"
    ELSE IF d.handler = "none" THEN "handler"
    ELSE IF ~d.hasSchedule THEN "schedule"
    ELSE "none"

\* job n of the configuration read at startup lacks a required key, and no job
\* before it in the configuration is rejected
StartupLacksKey(n) ==
    /\ edits = 0
    /\ pc # "m_validate"
    /\ LacksKey(torque.jobs[n]) # "none"
    /\ \A i \in 1..Len(NameOrder) :
          (\E j \in (i + 1)..Len(NameOrder) : NameOrder[j] = n) => ~Invalid(torque.jobs[NameOrder[i]])

\* C15: with a job definition lacking handler or schedule, startup ends fatally with an
\* error naming the job and the key; no scheduler is started, no job is registered and
\* no handler is constructed.
C15_MissingKeyFatal ==
    \A n \in Names :
        StartupLacksKey(n)
        => /\ outcome = "fatal"
           /\ pc = "done"
           /\ report = <<"fatal", n, LacksKey(torque.jobs[n])>>
           /\ sched = "none"
           /\ shutdowns = 0
           /\ insts = <<>>
           /\ \A k \in Names : schedJobs[k] = 0 /\ classes[k] = 0

C15_Witness ==
    /\ StartupLacksKey("A")
    /\ torque.jobs["A"] = NoSchedule
    /\ torque.jobs["C"] = Plain
    /\ mode = "start"
    /\ report = <<"fatal", "A", "schedule">>

\* what a fragment "key=value" is expected to give, stated without the parser
HasEq(p) == \E i \in 1..Len(p) : p[i] = "="
FirstEq(p) == CHOOSE i \in 1..Len(p) : p[i] = "=" /\ \A j \in 1..(i - 1) : p[j] # "="
KeyOf(p) == SubSeq(p, 1, FirstEq(p) - 1)
ValOf(p) == SubSeq(p, FirstEq(p) + 1, Len(p))
\* the integer literals among the values tried, with their values
IntLiterals == {<<"3", "0">>, <<"-", "5">>}
LiteralValue(v) == IF v = <<"3", "0">> THEN 30 ELSE 0 - 5
WellFormed(p) == HasEq(p) /\ (KeyOf(p) = Jitter => ValOf(p) \in IntLiterals)
ExpectedVal(p) ==
    IF KeyOf(p) = Jitter
    THEN [isInt |-> TRUE, str |-> <<>>, num |-> LiteralValue(ValOf(p))]
    ELSE [isInt |-> FALSE, str |-> ValOf(p), num |-> 0]

\* C16: parse_schedule gives a mapping with jitter as an integer and every other key
\* as the string after the first "="; with a fragment that has no "=" or a jitter value
\* that is no integer it fails naming the first such fragment and gives no result.
C16_ParseSchedule ==
    psOut.done
    => IF \A i \in 1..Len(psInput) : WellFormed(psInput[i])
       THEN /\ psOut.ok
            /\ DOMAIN psOut.result = {KeyOf(psInput[i]) : i \in 1..Len(psInput)}
            /\ \A i \in 1..Len(psInput) :
                  (\A j \in (i + 1)..Len(psInput) : KeyOf(psInput[j]) # KeyOf(psInput[i]))
                  => psOut.result[KeyOf(psInput[i])] = ExpectedVal(psInput[i])
       ELSE /\ ~psOut.ok
            /\ psOut.result = <<>>
            /\ \E i \in 1..Len(psInput) :
                  /\ psOut.bad = psInput[i]
                  /\ ~WellFormed(psInput[i])
                  /\ \A j \in 1..(i - 1) : WellFormed(psInput[j])

\* "minute=*/5 jitter=30" gave minute = "*/5" and jitter = 30
C16_Witness ==
    /\ psOut.done
    /\ psInput = << <<"m", "=", "*", "/", "5">>, Jitter \o <<"=", "3", "0">> >>
    /\ psOut.ok
    /\ psOut.result[<<"m">>].str = <<"*", "/", "5">>
    /\ psOut.result[Jitter].isInt
    /\ psOut.result[Jitter].num = 30

\* add_jobs has just come to its end: at startup, or in a reload that was applied
JobsApplied == pc = "run_forever" \/ (Returned /\ tick.result = "applied")

\* the configuration last loaded switches job n off
SwitchedOff(n) == torque.jobs[n].present /\ ~torque.jobs[n].active

RegisteredHandlerBuilt(n) ==
    schedJobs[n] # 0
    => /\ schedJobs[n] \in 1..Len(insts)
       /\ insts[schedJobs[n]].name = n
       /\ insts[schedJobs[n]].cls # "BadInit"

\* this step registers job n
Registers(n) == schedJobs'[n] # 0 /\ schedJobs'[n] # schedJobs[n]

\* a step that registers job n does so with the schedule parsed from the job's schedule
\* string and with a handler constructed in that step before the registration
RegisteredAfterParseAndBuild(n) ==
    Registers(n)
    => /\ parse_schedule(jobs[n].raw).ok
       /\ jobs[n].schedule = parse_schedule(jobs[n].raw).result
       /\ schedJobs'[n] \in (Len(insts) + 1)..Len(insts')
       /\ insts'[schedJobs'[n]].name = n
       /\ insts'[schedJobs'[n]].cls = jobs[n].imported
       /\ jobs[n].imported \notin {"none", "BadInit"}

BackgroundRun == ~no_fork /\ sched \in {"running", "paused"}

\* a background start has come to its end with the lock held by a live daemon
StartRefused ==
    /\ mode \in {"start", "restart"}
    /\ ~no_fork
    /\ pc = "done"
    /\ lock = "live"

\* C19: a background daemon runs its scheduler only while it holds the pid lock itself,
\* so never while another live daemon holds it; a background start made while a live
\* daemon holds the lock ends in an error without a scheduler, a handler or a job.
C19_SingleDaemon ==
    /\ BackgroundRun => lock = "self"
    /\ lock = "live" => ~BackgroundRun
    /\ StartRefused
       => /\ outcome \in {"crash", "fatal"}
          /\ sched = "none"
          /\ insts = <<>>
          /\ \A n \in Names : schedJobs[n] = 0

C19_Witness ==
    /\ StartRefused
    /\ mode = "start"
    /\ outcome = "crash"
    /\ torque.jobs["A"] = Good
    /\ sched = "none"

\* the part of mainloop that stops the running daemon, and the part that starts one
StopPcs == {"m_control", "m_stop", "m_wait", "m_stop_end"}
StartPcs == {"m_run_once", "m_daemonize", "m_add_jobs", "run_forever", "sleep"}

\* C20: the stop phase of restart ends in the start sequence only, never in the end of
\* the process; stop never enters the start sequence and never has a scheduler.
C20_RestartProceeds ==
    [][/\ (mode = "restart" /\ pc \in StopPcs) => pc' \in StopPcs \cup {"m_run_once"}
       /\ mode = "stop" => (pc' \notin StartPcs /\ sched' = "none")]_vars

\* --run-once names a job of the configuration whose handler class constructs
RunOnceOfConfigured ==
    /\ mode = "run_once"
    /\ pc = "done"
    /\ outcome # "fatal"
    /\ torque.jobs[run_once].present
    /\ torque.jobs[run_once].handler # "BadInit"

\* C21: a run-once request for a configured job constructs the job's handler, calls
\* its run once and exits with code 0; no scheduler is started, no job registered and
\* the pid lock is not taken.
C21_RunOnce ==
    RunOnceOfConfigured
    => /\ outcome = "exit"
       /\ exit_code = 0
       /\ onceRuns = 1
       /\ Len(insts) = 1
       /\ insts[1].name = run_once
       /\ sched = "none"
       /\ shutdowns = 0
       /\ lock # "self"
       /\ \A n \in Names : schedJobs[n] = 0 /\ classes[n] = 0

\* C22: constructing a proxy for a URI whose scheme is not http, https, scgi or
\* scgi+ssh fails with a configuration error that names the scheme; no transport is
\* constructed and no request is sent.
C22_BadSchemeConfigurationError ==
    (rpcProxy.state # "none" /\ rpcProxy.scheme \notin {"http", "https", "scgi", "scgi+ssh"})
    => /\ rpcProxy.state = "failed"
       /\ rpcProxy.exc = "ConfigurationError"
       /\ rpcProxy.named = rpcProxy.scheme
       /\ rpcProxy.transport = "none"
       /\ rpcSent = <<>>

ActiveInConfig == {n \in Names : torque.jobs[n].present /\ torque.jobs[n].active}

\* C24: after every successful reload the job names registered with the scheduler are
\* the active jobs of the newly applied configuration; a job registered before the
\* reload and absent from the new configuration is unregistered and gets no new handler.
C24_RegisteredEqualsActive ==
    (Returned /\ tick.result = "applied")
    => /\ {n \in Names : schedJobs[n] # 0} = ActiveInConfig
       /\ \A n \in Names :
             (tick.pre[n] # 0 /\ ~torque.jobs[n].present)
             => (schedJobs[n] = 0 /\ tick.added[n] = 0)

\* C25: cleanup of a handler is never invoked, at reload or at shutdown, while a run
\* of that handler is in flight on the background scheduler.
C25_CleanupAfterRuns ==
    [][\A r \in inflight : insts'[r.inst].cleanups = insts[r.inst].cleanups]_vars

\* the reload of the last tick failed and reload_jobs has returned
FailedReload == Returned /\ tick.result = "error"

\* the snapshot is assigned when run_forever starts and by the last step of a reload
SnapshotAssignedAtEnd ==
    (running_config' # running_config) => (pc \in {"run_forever", "r_snapshot"})

\* a tick that reads a configuration different from the snapshot starts the reload
ChangeDetected ==
    (pc = "r_configure" /\ file # running_config /\ pc' \in ReloadPcs \ {"r_configure"})
    => pc' = "r_validate"

\* C26: the snapshot is replaced only at the end of a reload whose whole sequence
\* succeeded; a failed reload leaves it unchanged, the difference is still there and
\* the reload is attempted again on every following tick.
C26_FailedReloadAlwaysRetried ==
    /\ [](FailedReload => /\ running_config = tick.preConfig
                          /\ running_config # torque
                          /\ ENABLED Sleep)
    /\ [][SnapshotAssignedAtEnd /\ ChangeDetected]_vars

\* C26 amended: as above, with the reload attempted again on the following ticks as
\* long as the configuration last read has autoreload on.
C26_FailedReloadRetriedWhileAutoreload ==
    /\ [](FailedReload => /\ running_config = tick.preConfig
                          /\ running_config # torque
                          /\ (torque.autoreload => ENABLED Sleep))
    /\ [][SnapshotAssignedAtEnd /\ ChangeDetected]_vars

\* a second attempt: validate_config is about to run again on a configuration whose
\* job was left unparsed by the failed reload of an earlier tick
C26_Witness ==
    /\ pc = "r_validate"
    /\ running_config # torque
    /\ \E n \in Names : jobs[n].present /\ ~jobs[n].schedParsed

\* C27: the scheduler is shut down exactly once per run: shutdown is never called on a
\* scheduler that is already shut down, and a daemon that started its scheduler has
\* called it once when the process ends.
C27_ShutdownExactlyOnce ==
    /\ shutdowns <= 1
    /\ (pc = "done" /\ sched # "none") => (shutdowns = 1 /\ sched = "stopped")

\* C28: a stop invocation returns EX_OK exactly when it signalled a running daemon and
\* saw the lock released within the wait; it returns another code when no daemon was
\* running or the lock was still held when the wait expired, and it sends no signal
\* when the lock is not held.
C28_StopReturnCode ==
    (mode = "stop" /\ pc = "done" /\ outcome = "returned")
    => /\ (return_code = EX_OK <=> (sigsent = 1 /\ ~running))
       /\ (sigsent = 0 => return_code # EX_OK)
       /\ ((sigsent = 1 /\ running) => (polls = WaitPolls /\ return_code # EX_OK))
       /\ (pid = 0 => sigsent = 0)

\* the latest terminal call handed its request to the transport
Sent == rpcLast.call > 0 /\ rpcLast.sent

\* C11: a terminal call given positional and keyword arguments succeeds on a chain of
\* any length and sends exactly the positional arguments, in order.
C11_KwargsDiscarded ==
    (rpcLast.call > 0 /\ rpcLast.kw)
    => /\ rpcLast.outcome.exc # "TypeError"
       /\ rpcLast.sent
       /\ rpcLast.params = rpcLast.args

\* the fault message carries the not-found indicator
IsNotFound(msg) == msg = NotFoundMsg

\* C12: a fault signalled by the remote side leaves the call as HashNotFound when its
\* message has the not-found indicator and as XmlRpcError otherwise, with the fault's
\* code and message.
C12_FaultsTyped ==
    (Sent /\ rpcLast.transport.kind = "fault")
    => /\ rpcLast.outcome.kind = "raised"
       /\ rpcLast.outcome.exc = IF IsNotFound(rpcLast.transport.msg) THEN "HashNotFound"
                                ELSE "XmlRpcError"
       /\ rpcLast.outcome.code = rpcLast.transport.code
       /\ rpcLast.outcome.msg = rpcLast.transport.msg

\* C13: the result of a call is the single value when the response has exactly one
\* value, and the response itself, unchanged, when it has N # 1 values (N = 0 included).
C13_SingleValueUnwrapped ==
    (Sent /\ rpcLast.transport.kind = "values")
    => /\ rpcLast.outcome.kind = "returned"
       /\ rpcLast.outcome.items = rpcLast.transport.items
       /\ rpcLast.outcome.scalar = (Len(rpcLast.transport.items) = 1)

C13_Witness ==
    /\ Sent
    /\ rpcLast.call = 2
    /\ Len(rpcLast.segs) = 2
    /\ rpcLast.transport = Values(<<7>>)
    /\ rpcLast.outcome.scalar
    /\ rpcLast.outcome.items[1] = 7

\* C14: a connection-level error raised by the transport leaves the call as an error of
\* the XmlRpcError family that carries the transport's error as its cause.
C14_TransportErrorWrapped ==
    (Sent /\ rpcLast.transport.kind = "error")
    => /\ rpcLast.outcome.kind = "raised"
       /\ rpcLast.outcome.exc \in {"XmlRpcError", "HashNotFound"}
       /\ rpcLast.outcome.cause = rpcLast.transport.exc

\* C14 amended: a connection-level error raised by the transport leaves the call as it
\* is, neither caught nor wrapped, and the call returns no result.
C14_TransportErrorEscapes ==
    (Sent /\ rpcLast.transport.kind = "error")
    => /\ rpcLast.outcome.kind = "raised"
       /\ rpcLast.outcome.exc = rpcLast.transport.exc
       /\ rpcLast.outcome.cause = "none"
       /\ rpcLast.outcome.items = <<>>

C14_Witness ==
    /\ Sent
    /\ rpcLast.transport = ConnError("ConnectionRefusedError")
    /\ rpcLast.outcome.exc = "ConnectionRefusedError"
    /\ Len(rpcSent) = rpcCalls

====
